---- MODULE Spec2Model ----
(***************************************************************************)
(* ClassifierTrainer.train_memmap (theano/utils/model_trainer.py) as a     *)
(* state machine.  One trainer instance is constructed, train_memmap is    *)
(* called on it, and after the call ends (by return or by an exception)    *)
(* the caller may mutate the model it passed, build a new trainer, and     *)
(* call again with the same arguments.                                     *)
(*                                                                         *)
(* Numbers.  Parameter arrays are sequences of integers; float arithmetic  *)
(* is modelled by exact integer arithmetic.  The rmsprop accumulator is    *)
(* kept in hundredths (fixed point), correlations in halves.               *)
(* Arrays are objects: `heap` maps an array's identity to its contents and *)
(* the dictionaries model and best_model hold identities, so that aliasing *)
(* and copying are distinguishable.                                        *)
(***************************************************************************)
EXTENDS Integers, Sequences, FiniteSets, TLC

\* ------------------------------------------------------------------ bounds
\* Runs whose num_iters exceeds MaxIters are left out of the argument space.
MaxIters == 4
\* Calls of train_memmap made by the caller, one after the other.
MaxRuns == 2

\* The value None of an optional argument that is otherwise a string.  An
\* optional number is a sequence: <<>> is None, <<n>> is the number n.
None == "None"

\* ----------------------------------------------------------- argument space
Updates == {"sgd", "momentum", "rmsprop", "bogus"}
TrainSizes == {1, 3, 4, 1001}
ValSizes == {3, 4, 500}
BatchSizes == {1, 2, 500}
Epochs == {1, 2}
\* acc_frequency: None, or a positive period.
AccFreqs == {<<>>, <<2>>, <<3>>}
AugmentFns == {None, "shift"}
Momenta == {0, 1}
Seeds == {0, 3}
ParamSets == {{}, {"b1"}, {"W1", "W2"}}
\* Correlations (in halves) that pearsonr may return on the validation set.
Corrs == {-1, 0, 1, 2}

\* ------------------------------------------------------------------- state
VARIABLES
  cfg,                 \* the arguments of the call(s) of train_memmap
  pc,                  \* position: idle, batch, loss, update, eval, done, failed
  error,               \* the exception that ended the call, or None
  runs,                \* calls of train_memmap made so far
  rng,                 \* state of the process-wide random generator
  step_cache,          \* self.step_cache: parameter name -> array
  heap,                \* array identity -> contents
  model,               \* model: parameter name -> array identity
  best_model,          \* best_model: parameter name -> array identity
  best_val_acc,
  learning_rate,
  epoch,
  it,                  \* loop index of `for it in xrange(num_iters)`
  batch_mask,          \* the batch drawn in this iteration
  X_batch,             \* the local X_batch (<<>> while unassigned)
  grads,               \* gradients returned by the last loss_function call
  loss_history,
  train_acc_history,
  val_acc_history,
  weight_norm_history,
  max_dw_history,      \* statistics of the step and of the value of W1,
  min_dw_history,      \* one entry per update of W1
  mean_dw_history,
  max_weight_history,
  min_weight_history,
  mean_weight_history,
  \* history (ghost) variables, read by the properties only
  loss_input,          \* first argument of the last loss_function(X, model, y) call
  loss_calls,          \* loss_function(X, model, y) calls in this run
  n_updates,           \* executions of `model[p] += dx` in this run
  eval_models,         \* the parameter values at each completed validation pass
  prev_loss_history,   \* <<h>>: the previous run returned loss_history h
  fresh,               \* no call has been made on the trainer in use
  reused               \* the current call is not the first on its trainer

vars == <<cfg, pc, error, runs, rng, step_cache, heap, model,
          best_model, best_val_acc, learning_rate, epoch, it, batch_mask,
          X_batch, grads, loss_history, train_acc_history, val_acc_history,
          weight_norm_history, loss_input, loss_calls, n_updates, eval_models,
          prev_loss_history, fresh, reused, max_dw_history, min_dw_history,
          mean_dw_history, max_weight_history, min_weight_history,
          mean_weight_history>>

\* Lines 297-302: the histories of the statistics of W1.
w1_stats == <<max_dw_history, min_dw_history, mean_dw_history,
              max_weight_history, min_weight_history, mean_weight_history>>

\* ------------------------------------------------------------ array helpers
EmptyDict == [x \in {} |-> 0]

Zeros(n) == [i \in 1..n |-> 0]

\* Truncating division, as float division followed by no rounding would give
\* for the magnitudes used here (sign kept, magnitude floored).
Quot(a, b) == IF a < 0 THEN -((-a) \div b) ELSE a \div b

ISqrt(n) == CHOOSE r \in 0..n : r * r <= n /\ (r + 1) * (r + 1) > n

RECURSIVE SumSeq(_)
SumSeq(s) == IF s = <<>> THEN 0 ELSE Head(s) + SumSeq(Tail(s))

\* np.max, np.min and np.mean of a non-empty array (the mean truncated to
\* an integer).
Max(a) == CHOOSE m \in {a[i] : i \in 1..Len(a)} : \A i \in 1..Len(a) : a[i] <= m

Min(a) == CHOOSE m \in {a[i] : i \in 1..Len(a)} : \A i \in 1..Len(a) : m <= a[i]

Mean(a) == Quot(SumSeq(a), Len(a))

RECURSIVE SumOver(_, _)
SumOver(f, S) ==
  IF S = {} THEN 0
  ELSE LET x == CHOOSE y \in S : TRUE IN f[x] + SumOver(f, S \ {x})

\* The caller's model: the initial contents of each parameter's array.
InitValue(p) == IF p = "W1" THEN <<1, -1>> ELSE IF p = "W2" THEN <<2>> ELSE <<0>>

ModelId(p) == <<"model", p>>

CopyId(p) == <<"copy", p>>

\* The contents of the arrays a dictionary of identities refers to.
Values(d) == [p \in DOMAIN d |-> heap[d[p]]]

\* ------------------------------------------------------------ collaborators
\* X[batch_mask]: the data a batch selects.  Batches are numbered; 0 is the
\* whole training set (batch_mask = train_inds).
XOf(mask) == mask

\* augment_fn(X): an augmentation that is not the identity.
Augment(fn, x) == IF fn = "shift" THEN x + 10 ELSE x

\* loss_function(X, model, y, reg, dropout) -> cost, grads.  A deterministic
\* function of the batch and of the current parameter values.
LossCost(x, mvals) ==
  x + SumOver([p \in DOMAIN mvals |-> SumSeq(mvals[p])], DOMAIN mvals)

LossGrads(x, mvals) ==
  [p \in DOMAIN mvals |->
     [i \in 1..Len(mvals[p]) |-> ((mvals[p][i] + x) % 3) - 1]]

\* pearsonr(y_pred_train, y[train_mask])[0]: the training correlation is a
\* function of the predictions, that is of the parameter values.
TrainCorr(mvals) ==
  (SumOver([p \in DOMAIN mvals |-> SumSeq(mvals[p])], DOMAIN mvals) % 3) - 1

\* np.random: the next state of the generator, and the draw it yields.
NextRng(r) == (5 * r + 3) % 8

Draw(r) == 1 + ((r \div 2) % 2)

\* --------------------------------------------------------------- arguments
\* Lines 285-286 with the quotient rounded up instead of down.
IterationsPerEpochCeil(c) ==
  IF c.sample_batches
  THEN (c.N + c.batch_size - 1) \div c.batch_size
  ELSE 1

\* N = y[train_inds].shape[0], and lines 285-288.
IterationsPerEpoch(c) ==
  IF c.sample_batches THEN c.N \div c.batch_size ELSE 1

\* Line 289.
NumIters(c) == c.num_epochs * IterationsPerEpoch(c)

\* The arguments of a call (lines 231-236), within the bounds.
Configs ==
  {c \in [update : Updates, sample_batches : BOOLEAN, N : TrainSizes,
          N_val : ValSizes, batch_size : BatchSizes, num_epochs : Epochs,
          acc_frequency : AccFreqs, augment_fn : AugmentFns,
          momentum : Momenta, seed : Seeds, params : ParamSets,
          learning_rate : {1}, learning_rate_decay : {2}] :
     /\ NumIters(c) <= MaxIters
     \* arguments the call never reads take one value only
     /\ c.update # "momentum" => c.momentum = 0
     /\ ~c.sample_batches => c.batch_size = 2}

\* ------------------------------------------------------------------ actions
\* ClassifierTrainer(): a trainer with an empty step cache, no call made.
Init ==
  /\ cfg \in Configs
  /\ pc = "idle"
  /\ error = None
  /\ runs = 0
  /\ rng = 0
  /\ step_cache = EmptyDict
  /\ heap = EmptyDict
  /\ model = EmptyDict
  /\ best_model = EmptyDict
  /\ best_val_acc = 0
  /\ learning_rate = 0
  /\ epoch = 0
  /\ it = 0
  /\ batch_mask = 0
  /\ X_batch = <<>>
  /\ grads = EmptyDict
  /\ loss_history = <<>>
  /\ train_acc_history = <<>>
  /\ val_acc_history = <<>>
  /\ weight_norm_history = <<>>
  /\ max_dw_history = <<>>
  /\ min_dw_history = <<>>
  /\ mean_dw_history = <<>>
  /\ max_weight_history = <<>>
  /\ min_weight_history = <<>>
  /\ mean_weight_history = <<>>
  /\ loss_input = <<>>
  /\ loss_calls = 0
  /\ n_updates = 0
  /\ eval_models = <<>>
  /\ prev_loss_history = <<>>
  /\ fresh = TRUE
  /\ reused = FALSE

\* The caller seeds np.random, builds the model with its initial parameter
\* values and calls train_memmap; lines 283-318 initialise the locals.
\* self.step_cache is not touched.
Call ==
  /\ pc \in {"idle", "done", "failed"}
  /\ runs < MaxRuns
  /\ runs' = runs + 1
  /\ pc' = "batch"
  /\ error' = None
  /\ rng' = cfg.seed
  /\ model' = [p \in cfg.params |-> ModelId(p)]
  /\ heap' = [a \in {ModelId(p) : p \in cfg.params} |-> InitValue(a[2])]
  /\ best_model' = EmptyDict
  /\ best_val_acc' = 0
  /\ learning_rate' = cfg.learning_rate
  /\ epoch' = 0
  /\ it' = 0
  /\ batch_mask' = 0
  /\ X_batch' = <<>>
  /\ grads' = EmptyDict
  /\ loss_history' = <<>>
  /\ train_acc_history' = <<>>
  /\ val_acc_history' = <<>>
  /\ weight_norm_history' = <<>>
  /\ max_dw_history' = <<>>
  /\ min_dw_history' = <<>>
  /\ mean_dw_history' = <<>>
  /\ max_weight_history' = <<>>
  /\ min_weight_history' = <<>>
  /\ mean_weight_history' = <<>>
  /\ loss_input' = <<>>
  /\ loss_calls' = 0
  /\ n_updates' = 0
  /\ eval_models' = <<>>
  /\ prev_loss_history' = IF pc = "done" THEN <<loss_history>> ELSE <<>>
  /\ fresh' = FALSE
  /\ reused' = ~fresh
  /\ UNCHANGED <<cfg, step_cache>>

\* Lines 320-333: the next iteration draws its batch and, with an
\* augmentation function, binds X_batch to the augmented batch.
GetBatch ==
  /\ pc = "batch"
  /\ it < NumIters(cfg)
  /\ IF cfg.sample_batches
       THEN /\ batch_mask' = Draw(rng)
            /\ rng' = NextRng(rng)
       ELSE /\ batch_mask' = 0
            /\ rng' = rng
  /\ X_batch' = IF cfg.augment_fn # None
                  THEN <<Augment(cfg.augment_fn, XOf(batch_mask'))>>
                  ELSE X_batch
  /\ pc' = "loss"
  /\ UNCHANGED <<cfg, error, runs, step_cache, heap, model,
                 best_model, best_val_acc, learning_rate, epoch, it, grads,
                 loss_history, train_acc_history, val_acc_history,
                 weight_norm_history, loss_input, loss_calls, n_updates,
                 eval_models, prev_loss_history, fresh, reused, w1_stats>>

\* Line 336: the first argument the code passes to loss_function.
LossArgument == XOf(batch_mask)

\* Lines 335-337: cost and gradients on the batch; the cost is logged.
ComputeLoss ==
  /\ pc = "loss"
  /\ loss_input' = <<LossArgument>>
  /\ loss_calls' = loss_calls + 1
  /\ grads' = LossGrads(LossArgument, Values(model))
  /\ loss_history' = Append(loss_history, LossCost(LossArgument, Values(model)))
  /\ pc' = "update"
  /\ UNCHANGED <<cfg, error, runs, rng, step_cache, heap, model,
                 best_model, best_val_acc, learning_rate, epoch, it,
                 batch_mask, X_batch, train_acc_history, val_acc_history,
                 weight_norm_history, n_updates, eval_models,
                 prev_loss_history, fresh, reused, w1_stats>>

\* Line 350: decay_rate = 0.99, in hundredths.
DecayRatePct == 99

Supported == {"sgd", "momentum", "rmsprop"}

\* Lines 345-346 and 351-352: the accumulator of p, zeros of the gradient's
\* shape when self.step_cache has no entry for p yet.
CacheOf(p) ==
  IF p \in DOMAIN step_cache THEN step_cache[p] ELSE Zeros(Len(grads[p]))

\* Line 343.
SgdStep(p) == [i \in 1..Len(grads[p]) |-> -learning_rate * grads[p][i]]

\* Lines 347-348 with the accumulator left out of the step.
MomentumStepNoCache(p) ==
  [i \in 1..Len(grads[p]) |-> -learning_rate * grads[p][i]]

\* Lines 347-348: dx, which is also the new accumulator.
MomentumStep(p) ==
  [i \in 1..Len(grads[p]) |->
     cfg.momentum * CacheOf(p)[i] - learning_rate * grads[p][i]]

\* Line 353: the new accumulator (hundredths).
RmsCache(p) ==
  [i \in 1..Len(grads[p]) |->
     (CacheOf(p)[i] * DecayRatePct) \div 100
       + (100 - DecayRatePct) * grads[p][i] * grads[p][i]]

\* Line 354: dx = -(lr * g) / sqrt(cache + 1e-8); sqrt(c / 100) = sqrt(c) / 10.
RmsStep(p) ==
  [i \in 1..Len(grads[p]) |->
     IF grads[p][i] = 0 THEN 0
     ELSE Quot(-(learning_rate * grads[p][i]) * 10, ISqrt(RmsCache(p)[i]))]

Dx(p) ==
  IF cfg.update = "sgd" THEN SgdStep(p)
  ELSE IF cfg.update = "momentum" THEN MomentumStep(p)
  ELSE RmsStep(p)

NewCache(p) == IF cfg.update = "momentum" THEN MomentumStep(p) ELSE RmsCache(p)

\* Lines 344-353 with the step stored for every rule, sgd included.
StepCacheAlwaysStored ==
  [p \in DOMAIN step_cache \cup DOMAIN model |->
     IF p \in DOMAIN model THEN Dx(p) ELSE step_cache[p]]

\* Lines 344-353: self.step_cache after the loop over the parameters: sgd
\* leaves it alone, momentum and rmsprop store the accumulator of each
\* parameter of the model.
StepCacheAfter ==
  IF cfg.update = "sgd" THEN step_cache
  ELSE [p \in DOMAIN step_cache \cup DOMAIN model |->
          IF p \in DOMAIN model THEN NewCache(p) ELSE step_cache[p]]

\* Lines 339-368: `for p in model`: the step of every parameter by the
\* selected rule, added to the parameter's array in place, and for W1 the
\* statistics of its step and of its new value.  An unrecognized rule raises
\* ValueError when the first parameter is reached.
UpdateParams ==
  /\ pc = "update"
  /\ IF DOMAIN model = {}
       THEN /\ pc' = "eval"
            /\ UNCHANGED <<error, step_cache, heap, n_updates, w1_stats>>
       ELSE IF cfg.update \notin Supported
       THEN /\ pc' = "failed"
            /\ error' = "ValueError"
            /\ UNCHANGED <<step_cache, heap, n_updates, w1_stats>>
       ELSE /\ pc' = "eval"
            /\ error' = error
            /\ step_cache' = StepCacheAfter
            /\ heap' =
                 [a \in DOMAIN heap |->
                    IF \E p \in DOMAIN model : model[p] = a
                    THEN LET p == CHOOSE q \in DOMAIN model : model[q] = a
                         IN [i \in 1..Len(heap[a]) |-> heap[a][i] + Dx(p)[i]]
                    ELSE heap[a]]
            /\ n_updates' = n_updates + Cardinality(DOMAIN model)
            /\ IF "W1" \in DOMAIN model
                 THEN /\ max_dw_history' = Append(max_dw_history, Max(Dx("W1")))
                      /\ min_dw_history' = Append(min_dw_history, Min(Dx("W1")))
                      /\ mean_dw_history' = Append(mean_dw_history, Mean(Dx("W1")))
                      /\ max_weight_history' =
                           Append(max_weight_history, Max(heap'[model["W1"]]))
                      /\ min_weight_history' =
                           Append(min_weight_history, Min(heap'[model["W1"]]))
                      /\ mean_weight_history' =
                           Append(mean_weight_history, Mean(heap'[model["W1"]]))
                 ELSE UNCHANGED w1_stats
  /\ UNCHANGED <<cfg, runs, rng, model, best_model, best_val_acc,
                 learning_rate, epoch, it, batch_mask, X_batch, grads,
                 loss_history, train_acc_history, val_acc_history,
                 weight_norm_history, loss_input, loss_calls, eval_models,
                 prev_loss_history, fresh, reused>>

\* Line 381: the training subset the evaluation reads is capped.
TrainSubsetCap == 1000

\* Lines 371-374.
first_it(i) == i = 0

\* Line 372 testing it instead of it + 1.
epoch_end_at_start(i) == i % IterationsPerEpoch(cfg) = 0

epoch_end(i) == (i + 1) % IterationsPerEpoch(cfg) = 0

acc_check(i) ==
  cfg.acc_frequency # <<>> /\ i % cfg.acc_frequency[1] = 0

EvalTriggered(i) == first_it(i) \/ epoch_end(i) \/ acc_check(i)

\* Line 375.
DecaysAt(i) == i > 0 /\ epoch_end(i)

\* The comparison of line 441 turned round, as when tracking an error.
ImprovesWhenLower(val_acc, best) == val_acc < best

\* Line 441.
Improves(val_acc, best) == val_acc > best

\* Line 446 without .copy(): best_model[p] is the array model[p] itself.
SnapshotRefAlias(p) == model[p]

\* Line 446: the array stored in best_model[p], a copy of model[p].
SnapshotRef(p) == CopyId(p)

\* Line 450: sum of squares of W1 and W2.
WeightNorm(mvals) ==
  SumSeq([i \in 1..Len(mvals["W1"]) |-> mvals["W1"][i] * mvals["W1"][i]])
    + SumSeq([i \in 1..Len(mvals["W2"]) |-> mvals["W2"][i] * mvals["W2"][i]])

\* Lines 370-456: the end of an iteration.  When an evaluation is due: decay
\* at an epoch end, the training pass (with its divisibility assertion), the
\* validation pass (with its own), best-model tracking and the weight norm.
\* Then the loop goes on to the next iteration.
Evaluate ==
  /\ pc = "eval"
  /\ \E v \in Corrs :
       LET trig == EvalTriggered(it)
           subsample == cfg.N > TrainSubsetCap
           M == IF subsample THEN TrainSubsetCap ELSE cfg.N
           trainFail == trig /\ cfg.sample_batches /\ M % cfg.batch_size # 0
           valFail == /\ trig /\ ~trainFail /\ cfg.sample_batches
                      /\ cfg.N_val % cfg.batch_size # 0
           evaluated == trig /\ ~trainFail /\ ~valFail
           improves == evaluated /\ Improves(v, best_val_acc)
           keyFail == evaluated /\ ~({"W1", "W2"} \subseteq DOMAIN model)
       IN
       /\ learning_rate' = IF trig /\ DecaysAt(it)
                             THEN learning_rate * cfg.learning_rate_decay
                             ELSE learning_rate
       /\ epoch' = IF trig /\ DecaysAt(it) THEN epoch + 1 ELSE epoch
       /\ rng' = IF trig /\ subsample THEN NextRng(rng) ELSE rng
       /\ train_acc_history' =
            IF trig /\ ~trainFail
            THEN Append(train_acc_history, TrainCorr(Values(model)))
            ELSE train_acc_history
       /\ val_acc_history' =
            IF evaluated THEN Append(val_acc_history, v) ELSE val_acc_history
       /\ eval_models' =
            IF evaluated THEN Append(eval_models, Values(model)) ELSE eval_models
       /\ best_val_acc' = IF improves THEN v ELSE best_val_acc
       /\ best_model' =
            IF improves THEN [p \in DOMAIN model |-> SnapshotRef(p)]
            ELSE best_model
       /\ heap' =
            IF improves
            THEN [a \in DOMAIN heap \cup {SnapshotRef(p) : p \in DOMAIN model} |->
                    IF \E p \in DOMAIN model : SnapshotRef(p) = a
                    THEN heap[model[CHOOSE p \in DOMAIN model : SnapshotRef(p) = a]]
                    ELSE heap[a]]
            ELSE heap
       /\ weight_norm_history' =
            IF evaluated /\ ~keyFail
            THEN Append(weight_norm_history, WeightNorm(Values(model)))
            ELSE weight_norm_history
       /\ error' = IF trainFail \/ valFail THEN "AssertionError"
                    ELSE IF keyFail THEN "KeyError" ELSE error
       /\ pc' = IF trainFail \/ valFail \/ keyFail THEN "failed" ELSE "batch"
       /\ it' = IF trainFail \/ valFail \/ keyFail THEN it ELSE it + 1
  /\ UNCHANGED <<cfg, runs, step_cache, model, batch_mask, X_batch,
                 grads, loss_history, loss_input, loss_calls, n_updates,
                 prev_loss_history, fresh, reused, w1_stats>>

\* Lines 528-531: the loop is over; best_model and the histories are returned.
Return ==
  /\ pc = "batch"
  /\ it >= NumIters(cfg)
  /\ pc' = "done"
  /\ UNCHANGED <<cfg, error, runs, rng, step_cache, heap, model,
                 best_model, best_val_acc, learning_rate, epoch, it,
                 batch_mask, X_batch, grads, loss_history, train_acc_history,
                 val_acc_history, weight_norm_history, loss_input, loss_calls,
                 n_updates, eval_models, prev_loss_history, fresh,
                 reused, w1_stats>>

\* After the call the caller, who keeps a reference to the model it passed,
\* overwrites one of its arrays in place.
MutateModel ==
  /\ pc = "done"
  /\ \E p \in DOMAIN model :
       /\ heap[model[p]] # [i \in 1..Len(heap[model[p]]) |-> 99]
       /\ heap' = [heap EXCEPT ![model[p]] = [i \in 1..Len(@) |-> 99]]
  /\ UNCHANGED <<cfg, pc, error, runs, rng, step_cache, model,
                 best_model, best_val_acc, learning_rate, epoch, it,
                 batch_mask, X_batch, grads, loss_history, train_acc_history,
                 val_acc_history, weight_norm_history, loss_input, loss_calls,
                 n_updates, eval_models, prev_loss_history, fresh,
                 reused, w1_stats>>

\* Lines 10-11: the caller constructs a new trainer for the next call.
NewTrainer ==
  /\ pc \in {"done", "failed"}
  /\ ~fresh
  /\ runs < MaxRuns
  /\ fresh' = TRUE
  /\ step_cache' = EmptyDict
  /\ UNCHANGED <<cfg, pc, error, runs, rng, heap, model,
                 best_model, best_val_acc, learning_rate, epoch, it,
                 batch_mask, X_batch, grads, loss_history, train_acc_history,
                 val_acc_history, weight_norm_history, loss_input, loss_calls,
                 n_updates, eval_models, prev_loss_history, reused, w1_stats>>

Next ==
  \/ Call
  \/ GetBatch
  \/ ComputeLoss
  \/ UpdateParams
  \/ Evaluate
  \/ Return
  \/ MutateModel
  \/ NewTrainer

Spec == Init /\ [][Next]_vars

\* =============================================================== properties
Last(h) == h[Len(h)]

\* The greatest entry of a non-empty history, and the first place it is at.
MaxOf(h) == CHOOSE m \in {h[k] : k \in 1..Len(h)} : \A k \in 1..Len(h) : h[k] <= m

FirstArgMax(h) == CHOOSE k \in 1..Len(h) :
  h[k] = MaxOf(h) /\ \A j \in 1..(k - 1) : h[j] < MaxOf(h)

\* C1: within one run best_val_acc never decreases, and it changes only in a
\* step that appends a validation correlation strictly above it, to which it
\* is then equal.
C1_BestValAccMonotone ==
  [][runs' = runs =>
       /\ best_val_acc' >= best_val_acc
       /\ best_val_acc' # best_val_acc =>
            /\ Len(val_acc_history') = Len(val_acc_history) + 1
            /\ Last(val_acc_history') > best_val_acc
            /\ best_val_acc' = Last(val_acc_history')]_vars

\* C1 witness: a run whose best correlation rose at the first evaluation,
\* stayed at the second (a worse one) and rose again at the third.
C1_Witness ==
  /\ Len(val_acc_history) >= 3
  /\ val_acc_history[1] = 1
  /\ val_acc_history[2] = 0
  /\ val_acc_history[3] = 2
  /\ best_val_acc = 2

\* C2: once a validation correlation has exceeded the initial best, the arrays
\* best_model holds have the contents the parameters had at the evaluation
\* that produced best_val_acc (the first one with the greatest correlation),
\* whatever was done to the model's arrays since, in the run or after it.
C2_BestModelIsSnapshot ==
  (val_acc_history # <<>> /\ MaxOf(val_acc_history) > 0) =>
     /\ best_val_acc = MaxOf(val_acc_history)
     /\ DOMAIN best_model = DOMAIN model
     /\ Values(best_model) = eval_models[FirstArgMax(val_acc_history)]

\* C2 witness: the snapshot was taken at the first evaluation; the parameters
\* were updated afterwards and the caller overwrote W1 after the return.
C2_Witness ==
  /\ pc = "done"
  /\ Len(val_acc_history) >= 2
  /\ best_val_acc > 0
  /\ val_acc_history[1] = best_val_acc
  /\ eval_models[1] # Last(eval_models)
  /\ heap[model["W1"]] = <<99, 99>>
  /\ Values(best_model) # Values(model)

\* C3 (as claimed): a run that returns after at least one evaluation returns,
\* for every parameter of model, the snapshot taken at the first evaluation
\* with the highest validation correlation.
C3_ReturnsBestSnapshot ==
  (pc = "done" /\ val_acc_history # <<>>) =>
     /\ DOMAIN best_model = DOMAIN model
     /\ Values(best_model) = eval_models[FirstArgMax(val_acc_history)]

\* C4 (as claimed): when the divisibility assertion fails, nothing has been
\* trained yet: no parameter updated, no step-cache entry, no loss logged.
C4_FailsBeforeTraining ==
  error = "AssertionError" =>
     /\ n_updates = 0
     /\ DOMAIN step_cache = {}
     /\ loss_history = <<>>

\* C5 (as claimed): with an update rule outside sgd, momentum, rmsprop a call
\* never calls the loss function, logs no loss, changes no parameter and
\* does not return normally.
C5_UnsupportedFailsFirst ==
  (runs >= 1 /\ cfg.update \notin {"sgd", "momentum", "rmsprop"}) =>
     /\ loss_calls = 0
     /\ loss_history = <<>>
     /\ n_updates = 0
     /\ pc # "done"

\* floor(n / d), by its definition.
Floor(n, d) == CHOOSE q \in 0..n : q * d <= n /\ n < (q + 1) * d

ItersPerEpochSpec == IF cfg.sample_batches THEN Floor(cfg.N, cfg.batch_size) ELSE 1

NumItersSpec == cfg.num_epochs * ItersPerEpochSpec

\* The position of a running call: iterations begun, then the place in one.
Running == {"batch", "loss", "update", "eval"}

Rank ==
  4 * it + (CASE pc = "batch" -> 0 [] pc = "loss" -> 1 [] pc = "update" -> 2
              [] pc = "eval" -> 3 [] OTHER -> 0)

\* A step of the call itself (not of the caller).
RunStep == GetBatch \/ ComputeLoss \/ UpdateParams \/ Evaluate \/ Return

\* C6: a call terminates: while it runs it can always take a step, every
\* step advances it, and it never goes past num_iters iterations.  A call
\* that returns has run exactly num_epochs * iterations_per_epoch iterations
\* and returns that many losses, one logged per iteration.
C6_IterationCount ==
  /\ [](/\ pc = "done" => it = NumItersSpec /\ Len(loss_history) = NumItersSpec
        /\ pc \in {"batch", "loss"} => Len(loss_history) = it
        /\ pc \in {"update", "eval"} => Len(loss_history) = it + 1
        /\ runs >= 1 => /\ Len(loss_history) <= NumItersSpec
                        /\ loss_calls = Len(loss_history)
        /\ pc \in Running => Rank <= 4 * NumItersSpec /\ ENABLED RunStep)
  /\ [][(runs' = runs /\ pc \in Running) =>
          (pc' \in {"done", "failed"} \/ Rank' > Rank)]_vars

\* C6 witness: a run that returned after four iterations although batch_size
\* does not divide the number of training samples.
C6_Witness ==
  /\ pc = "done"
  /\ cfg.sample_batches
  /\ cfg.N % cfg.batch_size # 0
  /\ Len(loss_history) = 4

\* C7 (as claimed): every call starts with an empty step cache.
C7_CallStartsWithEmptyCache ==
  (pc = "batch" /\ it = 0) => DOMAIN step_cache = {}

\* C8 (as claimed): a run that follows a completed run with the same
\* arguments, initial parameters and seed returns the same loss history.
C8_Deterministic ==
  (pc = "done" /\ prev_loss_history # <<>>) =>
     loss_history = prev_loss_history[1]

\* C9 (as claimed): the loss function is given the augmented batch when an
\* augmentation function is configured, the plain batch otherwise.
C9_LossOnAugmentedBatch ==
  loss_input # <<>> =>
     loss_input[1] = IF cfg.augment_fn # None
                     THEN Augment(cfg.augment_fn, XOf(batch_mask))
                     ELSE XOf(batch_mask)

\* The evaluation trigger, from its description.
TriggerSpec(i) ==
  \/ i = 0
  \/ (i + 1) % ItersPerEpochSpec = 0
  \/ cfg.acc_frequency # <<>> /\ i % cfg.acc_frequency[1] = 0

IsPrefix(s, t) == Len(s) <= Len(t) /\ \A k \in 1..Len(s) : s[k] = t[k]

\* C10: while a run has not failed, train_acc_history and val_acc_history both
\* have one entry per finished iteration that triggers an evaluation, and no
\* step of a run removes or rewrites an entry of either.
C10_EvaluationSchedule ==
  /\ [](pc \in {"batch", "loss", "update", "eval", "done"} =>
         /\ Len(train_acc_history) = Len(val_acc_history)
         /\ Len(val_acc_history) =
              Cardinality({i \in 0..(it - 1) : TriggerSpec(i)}))
  /\ [][runs' = runs =>
          /\ IsPrefix(train_acc_history, train_acc_history')
          /\ IsPrefix(val_acc_history, val_acc_history')]_vars

\* C10 witness: a finished run of four iterations with acc_frequency = 2:
\* iteration 1 triggered nothing, iteration 2 only the frequency check.
C10_Witness ==
  /\ pc = "done"
  /\ it = 4
  /\ ItersPerEpochSpec = 4
  /\ cfg.acc_frequency = <<2>>
  /\ Len(val_acc_history) = 3

RECURSIVE Pow(_, _)
Pow(b, n) == IF n = 0 THEN 1 ELSE b * Pow(b, n - 1)

\* C11 (as claimed): in every state of a call the learning rate is the initial
\* one times learning_rate_decay to the power of the epoch counter, and a call
\* that returns after running its num_epochs epochs has counted num_epochs
\* epochs (and so decayed the learning rate num_epochs times).
C11_DecayOncePerEpoch ==
  /\ runs >= 1 =>
       learning_rate = cfg.learning_rate * Pow(cfg.learning_rate_decay, epoch)
  /\ (pc = "done" /\ NumItersSpec > 0) => epoch = cfg.num_epochs

\* C12 (as claimed): the diagnostic statistics never decide how a call goes
\* on: whatever the parameter names of the model, no call ends because of
\* them (the KeyError of the weight-norm line is the only exception they can
\* raise).
C12_DiagnosticsObservational == error # "KeyError"

\* C13: every step-cache entry has the shape of its parameter's gradient; sgd
\* never has an entry; after an update by momentum or rmsprop every parameter
\* of the model has one, for the rest of the call and after its return (until
\* the caller builds a new trainer); and while a call runs no entry is removed, and an
\* entry appears only in the first parameter update of the call, under
\* momentum or rmsprop, for a parameter of the model.
C13_StepCacheEntries ==
  /\ [](/\ \A p \in DOMAIN step_cache :
             /\ Len(step_cache[p]) = Len(InitValue(p))
             /\ p \in DOMAIN grads => Len(step_cache[p]) = Len(grads[p])
        /\ cfg.update = "sgd" => DOMAIN step_cache = {}
        /\ (pc \in Running \cup {"done"} /\ ~fresh /\ n_updates > 0
              /\ cfg.update \in {"momentum", "rmsprop"}) =>
             DOMAIN model \subseteq DOMAIN step_cache)
  /\ [][(pc \in Running) =>
          /\ DOMAIN step_cache \subseteq DOMAIN step_cache'
          /\ DOMAIN step_cache' # DOMAIN step_cache =>
               (/\ pc = "update"
                /\ n_updates = 0
                /\ cfg.update \in {"momentum", "rmsprop"}
                /\ DOMAIN step_cache' = DOMAIN step_cache \cup DOMAIN model)]_vars

\* C13 witness: an rmsprop call that returned after two or more updates of
\* W1 and W2, whose entries were created in the first.
C13_Witness ==
  /\ pc = "done"
  /\ cfg.update = "rmsprop"
  /\ ~reused
  /\ n_updates >= 4
  /\ DOMAIN step_cache = {"W1", "W2"}

\* The accumulator a momentum update of p reads: the entry of the step cache,
\* or zeros when the trainer has none for p yet.
CacheBefore(p) ==
  IF p \in DOMAIN step_cache THEN step_cache[p]
  ELSE [i \in 1..Len(grads[p]) |-> 0]

\* C14: every completed momentum update of a parameter p computes
\* delta = momentum * cache[p] - lr * g from the accumulator before the step,
\* which is zero in the first update a trainer makes of p; it stores delta as
\* the new cache[p] and adds it to the array of model[p] in place, so the
\* array has changed by exactly the new cache[p]; with momentum = 0 delta is
\* the sgd step -lr * g.
C14_MomentumRule ==
  [][(pc = "update" /\ pc' = "eval" /\ cfg.update = "momentum") =>
       (\A p \in DOMAIN model :
          /\ model'[p] = model[p]
          /\ DOMAIN step_cache'[p] = DOMAIN grads[p]
          /\ DOMAIN heap'[model[p]] = DOMAIN grads[p]
          /\ (~reused /\ n_updates = 0) => p \notin DOMAIN step_cache
          /\ \A i \in DOMAIN grads[p] :
               /\ step_cache'[p][i] =
                    cfg.momentum * CacheBefore(p)[i] - learning_rate * grads[p][i]
               /\ heap'[model[p]][i] - heap[model[p]][i] = step_cache'[p][i]
               /\ (cfg.momentum = 0) =>
                    (heap'[model[p]][i] =
                       heap[model[p]][i] - learning_rate * grads[p][i]))]_vars

\* C14 witness: right after the second or a later momentum update of a call
\* on a new trainer, with momentum 1, the accumulator of some parameter
\* differs from the plain gradient step: the earlier steps are in it.
C14_Witness ==
  /\ pc = "eval"
  /\ cfg.update = "momentum"
  /\ cfg.momentum = 1
  /\ ~reused
  /\ loss_calls >= 2
  /\ \E p \in DOMAIN model : \E i \in DOMAIN grads[p] :
       /\ step_cache[p][i] # -learning_rate * grads[p][i]
       /\ step_cache[p][i] # 0

====
